---- MODULE Spec2Model ----
(***************************************************************************)
(* BroadbandX ML service: the dynamic pricing engine                       *)
(* (src/ml/models/pricing_model.py, class DynamicPricingEngine) and the    *)
(* parts of the service around it.                                         *)
(*                                                                         *)
(* Numbers.  Python floats are modelled as exact fixed-point rationals:    *)
(*   weights (alpha, beta, gamma)       hundredths        (0.15 -> 15)     *)
(*   constraints, elasticity            hundredths        (-0.30 -> -30)   *)
(*   demand factor, churn risk,                                            *)
(*   rounded adjustment                 ten-thousandths   (0.15 -> 1500)   *)
(*   prices                             thousandths of a currency unit     *)
(*                                      going in (999.00 -> 999000),       *)
(*                                      hundredths once rounded by         *)
(*                                      round(x, 2)                        *)
(*   price_change_percent               hundredths of a percent            *)
(* The unrounded adjustment is the rational AdjNum / AdjDen.  round(x, n)  *)
(* is Python's round-half-even.  None is the empty set, a present          *)
(* optional value v is {v}.                                                *)
(***************************************************************************)
EXTENDS Integers, Sequences, FiniteSets, TLC

(***************************************************************************)
(* Optional values                                                         *)
(***************************************************************************)
None == {}

Some(v) == {v}

The(o) == CHOOSE v \in o : TRUE

(***************************************************************************)
(* Arithmetic                                                              *)
(***************************************************************************)
Min(a, b) == IF b < a THEN b ELSE a

Max(a, b) == IF b > a THEN b ELSE a

\* Python round(): n/d rounded to the nearest integer, ties to even (d > 0).
RoundHalfEven(n, d) ==
  LET q == n \div d
      r == n % d
  IN  IF 2 * r < d THEN q
      ELSE IF 2 * r > d THEN q + 1
      ELSE IF q % 2 = 0 THEN q ELSE q + 1

\* x * a / d as <<q, r>> with x * a = q * d + r and 0 <= r < d, for x >= 0,
\* computed by doubling so that no intermediate product leaves 32 bits.
RECURSIVE MulDivNat(_, _, _)
MulDivNat(x, a, d) ==
  IF x = 0 THEN <<0, 0>>
  ELSE LET h == MulDivNat(x \div 2, a, d)
           r2 == 2 * h[2] + (IF x % 2 = 1 THEN a ELSE 0)
       IN  <<2 * h[1] + (r2 \div d), r2 % d>>

MulDiv(x, a, d) == IF x >= 0 THEN MulDivNat(x, a, d) ELSE MulDivNat(-x, -a, d)

\* Order on the rationals q + r/d held as <<q, r>> (same d, 0 <= r < d).
RatLess(p, q) == p[1] < q[1] \/ (p[1] = q[1] /\ p[2] < q[2])

(***************************************************************************)
(* Configuration (src/ml/config.py)                                        *)
(***************************************************************************)
\* 1.0 in the unit the unrounded adjustment is held in: weights carry 1/100,
\* the elasticity factor 1/230, demand factor and churn risk 1/10000.
AdjDen == 100 * 230 * 10000

\* The demand-factor table is held in hundred-thousandths, one digit more
\* than round(demand, 4) keeps.
PRICING_CONFIG ==
  [weights |-> [alpha |-> 15, beta |-> 10, gamma |-> 20],
   constraints |-> [min_discount |-> -30, max_premium |-> 20,
                    churn_threshold |-> 70],
   demand_factors |-> [peak_hours |-> <<18, 22>>,
                       peak_multiplier |-> 15000,
                       offpeak_multiplier |-> -10000,
                       weekend_multiplier |-> 5000]]

\* segment_definitions: cluster -> elasticity (hundredths).
SEGMENT_ELASTICITY == [c \in 0..4 |->
  CASE c = 0 -> -30 [] c = 1 -> -180 [] c = 2 -> -120 [] c = 3 -> -200
    [] OTHER -> -50]

(***************************************************************************)
(* Timestamps: whole hours since Monday 00:00.                             *)
(***************************************************************************)
Hour(t) == t % 24

Weekday(t) == (t \div 24) % 7

(***************************************************************************)
(* Customer feature sets: functions from feature names to integers, any    *)
(* key may be missing (dict.get with a default).                           *)
(***************************************************************************)
Get(features, key, default) ==
  IF key \in DOMAIN features THEN features[key] ELSE default

(***************************************************************************)
(* DynamicPricingEngine: the estimators                                    *)
(***************************************************************************)
\* The peak window with its last hour left out.
ExclusivePeakEnd(demand_factors, timestamp) ==
  RoundHalfEven(
    (IF demand_factors.peak_hours[1] <= timestamp % 24
        /\ timestamp % 24 < demand_factors.peak_hours[2]
     THEN demand_factors.peak_multiplier
     ELSE demand_factors.offpeak_multiplier)
    + (IF (timestamp \div 24) % 7 >= 5
       THEN demand_factors.weekend_multiplier ELSE 0),
    10)

\* The clock read whether or not a timestamp is passed.
AlwaysNow(timestamp, now) == now

\* Lines 72-73 of calculate_demand_factor: the time the factor is for, now
\* being what datetime.now() reads.
DemandTimestamp(timestamp, now) ==
  IF timestamp = None THEN now ELSE The(timestamp)

\* calculate_demand_factor, timestamp given (ten-thousandths).
calculate_demand_factor(demand_factors, timestamp) ==
  LET hour == Hour(timestamp)
      is_weekend == Weekday(timestamp) >= 5
      peak_start == demand_factors.peak_hours[1]
      peak_end == demand_factors.peak_hours[2]
      demand == IF peak_start <= hour /\ hour <= peak_end
                THEN demand_factors.peak_multiplier
                ELSE demand_factors.offpeak_multiplier
      total == IF is_weekend THEN demand + demand_factors.weekend_multiplier
               ELSE demand
  IN  RoundHalfEven(total, 10)

\* The fallback estimate without its clamp.
UnclampedElasticity(features) ==
  RoundHalfEven(-40000 + 1400 * Get(features, "nps_score", 5)
                  + 5 * Min(Get(features, "plan_price", 1000), 2000)
                  + 12 * Min(Get(features, "avg_monthly_usage_gb", 200), 500),
                200)

\* The fallback of estimate_price_elasticity (hundredths).  With
\* e = -2.0 + 0.7 * nps/10 + 0.5 * min(price/2000, 1) + 0.3 * min(usage/500, 1)
\* the numerator below is 20000 * e.
ElasticityHeuristic(features) ==
  LET nps == Get(features, "nps_score", 5)
      plan_price == Get(features, "plan_price", 1000)
      usage == Get(features, "avg_monthly_usage_gb", 200)
      num == -40000 + 1400 * nps + 5 * Min(plan_price, 2000)
               + 12 * Min(usage, 500)
      clamped == Max(-50000, Min(-4000, num))
  IN  RoundHalfEven(clamped, 200)

\* normalize(val, 0, max_val) of calculate_churn_risk, times max_val.
Normalize(val, max_val) == Max(0, Min(max_val, val))

\* A fallback whose NPS term grows with the score.
RisingWithNps(features) ==
  LET usage_decline == -Get(features, "usage_change_30d", 0)
      days_inactive == Get(features, "days_since_login", 0)
      payment_issues == Get(features, "payment_failures_90d", 0)
      support_tickets == Get(features, "support_tickets", 0)
      nps == Get(features, "nps_score", 5)
      num == 2500 * Normalize(usage_decline, 30)
               + 2000 * Normalize(days_inactive, 30)
               + 20000 * Normalize(payment_issues, 3)
               + 9000 * Normalize(support_tickets, 5)
               + 6000 * nps
  IN  RoundHalfEven(num, 30)

\* The fallback of calculate_churn_risk (ten-thousandths).  The numerator
\* below is 30 * 10000 * risk.
ChurnHeuristic(features) ==
  LET usage_decline == -Get(features, "usage_change_30d", 0)
      days_inactive == Get(features, "days_since_login", 0)
      payment_issues == Get(features, "payment_failures_90d", 0)
      support_tickets == Get(features, "support_tickets", 0)
      nps == Get(features, "nps_score", 5)
      num == 2500 * Normalize(usage_decline, 30)
               + 2000 * Normalize(days_inactive, 30)
               + 20000 * Normalize(payment_issues, 3)
               + 9000 * Normalize(support_tickets, 5)
               + 60000 - 6000 * nps
  IN  RoundHalfEven(num, 30)

(***************************************************************************)
(* Collaborators.  A collaborator reference is "None", or an object that   *)
(* is "unfitted" (is_fitted False) or "fitted".  What predict_single does  *)
(* on a fitted object is an input of the call: it returns a value or       *)
(* raises inside the fitted model.                                         *)
(***************************************************************************)
\* A check of the fitted flag that lets every collaborator through.
AnyModel(model) == TRUE

is_fitted(model) == model = "fitted"

\* predict_single of ChurnPredictor / CustomerSegmentation: the guard at its
\* head, then the model.  outcome is <<"ok", value>> or <<"raise">>.
predict_single(model, outcome) ==
  IF model = "None" THEN [raised |-> TRUE, value |-> 0]
  ELSE IF model # "fitted" THEN [raised |-> TRUE, value |-> 0]
  ELSE IF outcome[1] = "raise" THEN [raised |-> TRUE, value |-> 0]
  ELSE [raised |-> FALSE, value |-> outcome[2]]

\* estimate_price_elasticity: [raised, value, calls], calls being the
\* collaborator states predict_single was invoked on.
estimate_price_elasticity(segmentation_model, features, outcome) ==
  IF segmentation_model # "None" /\ is_fitted(segmentation_model)
  THEN LET r == predict_single(segmentation_model, outcome)
       IN  [raised |-> r.raised, value |-> r.value,
            calls |-> {<<"segmentation", segmentation_model>>}]
  ELSE [raised |-> FALSE, value |-> ElasticityHeuristic(features),
        calls |-> {}]

\* calculate_churn_risk: likewise.
calculate_churn_risk(churn_model, features, outcome) ==
  IF churn_model # "None" /\ is_fitted(churn_model)
  THEN LET r == predict_single(churn_model, outcome)
       IN  [raised |-> r.raised, value |-> r.value,
            calls |-> {<<"churn", churn_model>>}]
  ELSE [raised |-> FALSE, value |-> ChurnHeuristic(features),
        calls |-> {}]

(***************************************************************************)
(* State                                                                   *)
(***************************************************************************)
VARIABLES
  heap,                \* the weights dict objects: object id -> contents
  weights,             \* self.weights: a reference into heap
  constraints,         \* self.constraints
  demand_factors,      \* self.demand_factors
  churn_model,         \* self.churn_model
  segmentation_model,  \* self.segmentation_model
  pricing_history,     \* self.pricing_history: results, oldest first
  running,             \* the calls in progress, one frame per thread
  configurations,      \* the weights at construction and as each
                       \* update_weights call leaves them
  last,                \* the last call: operation, arguments, outcome
  ops,                 \* the number of calls made on the engine so far
  service              \* the API service around the engine: the globals
                       \* of api/main.py and of the route modules

vars == <<heap, weights, constraints, demand_factors, churn_model,
          segmentation_model, pricing_history, running, configurations,
          last, ops, service>>

(***************************************************************************)
(* DynamicPricingEngine.calculate_dynamic_price                            *)
(***************************************************************************)
\* The normalisation without its clamp.
UnclampedFactor(elasticity) == -elasticity - 20

\* elasticity_factor = max(0, min(1, (-elasticity - 0.2) / 2.3)), times 230.
ElasticityFactor(elasticity) == Max(0, Min(230, -elasticity - 20))

\* alpha * demand_factor + beta * (-elasticity_factor) + (-churn_risk * gamma)
\* as a numerator over AdjDen.
CombinedAdjustment(w, demand_factor, elasticity, churn_risk) ==
  230 * w.alpha * demand_factor
    - 10000 * w.beta * ElasticityFactor(elasticity)
    - 230 * churn_risk * w.gamma

\* The combined adjustment passed on without the clamp.
Unconstrained(c, adjustment) == adjustment

\* max(min_discount, min(max_premium, adjustment)), over AdjDen.
ApplyConstraints(c, adjustment) ==
  Max(c.min_discount * (AdjDen \div 100),
      Min(c.max_premium * (AdjDen \div 100), adjustment))

\* base_price * (1 + adjustment) in thousandths, as <<q, r>> = q + r/AdjDen.
ScaledPrice(base_price, adjustment) ==
  LET m == MulDiv(base_price, adjustment, AdjDen)
  IN  <<base_price + m[1], m[2]>>

\* max(base_price * 0.5, dynamic_price).
FloorPrice(base_price, dynamic_price) ==
  LET half == MulDiv(base_price, AdjDen \div 2, AdjDen)
  IN  IF RatLess(half, dynamic_price) THEN dynamic_price ELSE half

\* round(x, 2) of a price x = q + r/AdjDen thousandths: hundredths.
RoundCents(x) ==
  LET c == x[1] \div 10
      m == x[1] % 10
  IN  IF m < 5 THEN c
      ELSE IF m > 5 \/ x[2] > 0 THEN c + 1
      ELSE IF c % 2 = 0 THEN c ELSE c + 1

\* round(((dynamic_price - base_price) / base_price) * 100, 2), base_price
\* not 0: the quotient is the adjustment when the price is
\* base_price * (1 + adjustment) and -0.5 when it is base_price * 0.5.
PriceChangePercent(base_price, adjustment, dynamic_price) ==
  IF dynamic_price = ScaledPrice(base_price, adjustment)
  THEN RoundHalfEven(adjustment, AdjDen \div 10000)
  ELSE -5000

\* The thresholds tested from -10 downwards: the test against -20 is never
\* reached.
ModerateBeforeHigh(change_pct) ==
  IF change_pct < -1000
  THEN "Moderate retention risk. Offer promotional discount."
  ELSE IF change_pct < -2000
  THEN "High retention risk. Apply maximum discount with loyalty offer."
  ELSE IF change_pct < 0
  THEN "Slight concern. Consider small incentive to maintain engagement."
  ELSE IF change_pct <= 1000
  THEN "Customer is stable. Standard pricing applies."
  ELSE "High-value customer. Premium pricing acceptable."

\* _generate_recommendation (change_pct in hundredths of a percent).
generate_recommendation(change_pct) ==
  IF change_pct < -2000
  THEN "High retention risk. Apply maximum discount with loyalty offer."
  ELSE IF change_pct < -1000
  THEN "Moderate retention risk. Offer promotional discount."
  ELSE IF change_pct < 0
  THEN "Slight concern. Consider small incentive to maintain engagement."
  ELSE IF change_pct <= 1000
  THEN "Customer is stable. Standard pricing applies."
  ELSE "High-value customer. Premium pricing acceptable."

\* Lines 199-252 of calculate_dynamic_price: the result dict built from the
\* three factors, the weights read (w) and the reference stored (wref).
PricingResult(w, wref, base_price, demand_factor, elasticity, churn_risk, stamp) ==
  LET adjustment == ApplyConstraints(constraints,
                      CombinedAdjustment(w, demand_factor, elasticity,
                                         churn_risk))
      dynamic_price == FloorPrice(base_price,
                                  ScaledPrice(base_price, adjustment))
      pct == PriceChangePercent(base_price, adjustment, dynamic_price)
  IN  [base_price |-> base_price,
       dynamic_price |-> RoundCents(dynamic_price),
       price_change |-> RoundCents(<<dynamic_price[1] - base_price,
                                     dynamic_price[2]>>),
       price_change_percent |-> pct,
       factors |-> [demand_factor |-> demand_factor,
                    elasticity |-> elasticity,
                    elasticity_factor |->
                      RoundHalfEven(10000 * ElasticityFactor(elasticity), 230),
                    churn_risk |-> churn_risk],
       weights |-> wref,
       adjustment |-> RoundHalfEven(adjustment, AdjDen \div 10000),
       timestamp |-> stamp,
       recommendation |-> generate_recommendation(pct)]

\* Lines 194-197 of calculate_dynamic_price: the three factors, or the
\* exception of the first collaborator that raises.
EstimateFactors(customer_features, timestamp, env) ==
  LET ts == DemandTimestamp(timestamp, env.now1)
      e == estimate_price_elasticity(segmentation_model, customer_features,
                                     env.segmentation)
      r == calculate_churn_risk(churn_model, customer_features, env.churn)
  IN  [raised |-> e.raised \/ r.raised,
       demand_factor |-> calculate_demand_factor(demand_factors, ts),
       elasticity |-> e.value,
       churn_risk |-> r.value,
       calls |-> IF e.raised THEN e.calls ELSE e.calls \cup r.calls]

\* calculate_dynamic_price(base_price, customer_features, timestamp) on the
\* engine as it stands.  env is what the call meets outside the engine:
\* the two datetime.now() readings (now1 <= now2) if timestamp is None, and
\* what predict_single does on a fitted collaborator.  The value is
\* [outcome, returned, calls]: outcome "ok" with the result in returned, or
\* the exception that ends the call.
calculate_dynamic_price(base_price, customer_features, timestamp, env) ==
  LET f == EstimateFactors(customer_features, timestamp, env)
      stamp == IF timestamp # None THEN The(timestamp) ELSE env.now2
  IN  IF f.raised
      THEN [outcome |-> "CollaboratorError", returned |-> <<>>,
            calls |-> f.calls]
      ELSE IF base_price = 0
      THEN [outcome |-> "ZeroDivisionError", returned |-> <<>>,
            calls |-> f.calls]
      ELSE [outcome |-> "ok",
            returned |-> <<PricingResult(heap[weights], weights, base_price,
                                         f.demand_factor, f.elasticity,
                                         f.churn_risk, stamp)>>,
            calls |-> f.calls]

\* self.pricing_history.append(result), for the results of one call.
\* PrependHistory puts them at the front instead.
PrependHistory(history, results) == results \o history

\* A lost append: the results take the place of the last entry.
OverwriteLast(history, results) ==
  IF history = <<>> \/ results = <<>> THEN history \o results
  ELSE SubSeq(history, 1, Len(history) - 1) \o results

AppendHistory(history, results) == history \o results

(***************************************************************************)
(* The other operations of DynamicPricingEngine                            *)
(***************************************************************************)
\* update_weights: the weights dict after the call.
update_weights(w, alpha, beta, gamma) ==
  [alpha |-> IF alpha # None THEN The(alpha) ELSE w.alpha,
   beta |-> IF beta # None THEN The(beta) ELSE w.beta,
   gamma |-> IF gamma # None THEN The(gamma) ELSE w.gamma]

\* The Python slice s[-limit:] for limit >= 0 (s[-0:] is s[0:]).
get_pricing_history(history, limit) ==
  IF limit = 0 \/ limit >= Len(history) THEN history
  ELSE SubSeq(history, Len(history) - limit + 1, Len(history))

\* Scenario timestamps with every other name taken as the weekday peak.
UnknownAsPeak(scenario, now) ==
  CASE scenario = "offpeak_weekday" -> 10
    [] scenario = "peak_weekend" -> 5 * 24 + 20
    [] scenario = "offpeak_weekend" -> 5 * 24 + 10
    [] OTHER -> 20

\* The timestamp simulate_pricing_scenarios builds for a scenario name:
\* 2024-01-15 is a Monday, 2024-01-20 a Saturday; any other name: now().
ScenarioTimestamp(scenario, now) ==
  CASE scenario = "peak_weekday" -> 20
    [] scenario = "offpeak_weekday" -> 10
    [] scenario = "peak_weekend" -> 5 * 24 + 20
    [] scenario = "offpeak_weekend" -> 5 * 24 + 10
    [] OTHER -> now

\* A run of calculate_dynamic_price calls, one per request, as the loops of
\* simulate_pricing_scenarios and optimize_revenue make them: the first
\* exception ends the run, the results before it stay appended.
RECURSIVE PriceEach(_)
PriceEach(requests) ==
  IF requests = <<>>
  THEN [outcome |-> "ok", returned |-> <<>>, calls |-> {}]
  ELSE LET q == Head(requests)
           After(c) ==
             IF c.outcome # "ok" THEN c
             ELSE LET rest == PriceEach(Tail(requests))
                  IN  [outcome |-> rest.outcome,
                       returned |-> c.returned \o rest.returned,
                       calls |-> c.calls \cup rest.calls]
       IN  The({After(c) : c \in {calculate_dynamic_price(
                                     q.base_price, q.features, q.timestamp,
                                     q.env)}})

\* simulate_pricing_scenarios: the requests of its loop, and the dict it
\* returns (a later scenario of the same name overwrites an earlier one).
ScenarioRequests(base_price, features, scenarios, envs) ==
  [i \in 1..Len(scenarios) |->
     [base_price |-> base_price, features |-> features,
      timestamp |-> Some(ScenarioTimestamp(scenarios[i], envs[i].now1)),
      env |-> envs[i]]]

\* The default scenario list of simulate_pricing_scenarios.
CanonicalScenarios ==
  <<"peak_weekday", "offpeak_weekday", "peak_weekend", "offpeak_weekend">>

\* The results keyed by position: the k-th result under the k-th default
\* name, whatever order the names were listed in.
ResultsByPosition(scenarios, results) ==
  [name \in {scenarios[i] : i \in 1..Len(results)} |->
     results[CHOOSE i \in 1..Len(CanonicalScenarios) :
               CanonicalScenarios[i] = name]]

ScenarioResults(scenarios, results) ==
  [name \in {scenarios[i] : i \in 1..Len(results)} |->
     results[CHOOSE i \in 1..Len(results) :
               /\ scenarios[i] = name
               /\ \A j \in 1..Len(results) : scenarios[j] = name => j <= i]]

\* optimize_revenue: the requests of its loop over zip(customers,
\* base_prices), every call with timestamp None.
\* Every customer of the batch priced with the features of the first.
FirstCustomerRequests(customers, base_prices, envs) ==
  [i \in 1..Min(Len(customers), Len(base_prices)) |->
     [base_price |-> base_prices[i], features |-> customers[1],
      timestamp |-> None, env |-> envs[i]]]

OptimizeRequests(customers, base_prices, envs) ==
  [i \in 1..Min(Len(customers), Len(base_prices)) |->
     [base_price |-> base_prices[i], features |-> customers[i],
      timestamp |-> None, env |-> envs[i]]]

RECURSIVE SumOf(_, _)
SumOf(results, field) ==
  IF results = <<>> THEN 0
  ELSE Head(results)[field] + SumOf(Tail(results), field)

\* round(x * a / d, 0) for any d # 0, by MulDiv.
RoundMulDiv(x, a, d) ==
  LET m == IF d > 0 THEN MulDiv(x, a, d) ELSE MulDiv(x, -a, -d)
      dd == IF d > 0 THEN d ELSE -d
  IN  IF 2 * m[2] < dd THEN m[1]
      ELSE IF 2 * m[2] > dd THEN m[1] + 1
      ELSE IF m[1] % 2 = 0 THEN m[1] ELSE m[1] + 1

\* Lines 300-313 of optimize_revenue: the summary, or the division by zero
\* of an empty or zero-revenue batch.  The totals are summed in thousandths
\* and returned rounded to hundredths, percentages in hundredths of a percent.
OptimizeSummary(customers, results) ==
  LET total_base_revenue == SumOf(results, "base_price")
      total_dynamic_revenue == 10 * SumOf(results, "dynamic_price")
      revenue_change == total_dynamic_revenue - total_base_revenue
  IN  IF total_base_revenue = 0 \/ Len(results) = 0
      THEN [outcome |-> "ZeroDivisionError", returned |-> <<>>]
      ELSE [outcome |-> "ok",
            returned |-> <<
              [total_base_revenue |-> RoundHalfEven(total_base_revenue, 10),
               total_dynamic_revenue |->
                 RoundHalfEven(total_dynamic_revenue, 10),
               revenue_change |-> RoundHalfEven(revenue_change, 10),
               revenue_change_percent |->
                 RoundMulDiv(revenue_change, 10000, total_base_revenue),
               customers_processed |-> Len(customers),
               avg_price_change_pct |->
                 RoundHalfEven(SumOf(results, "price_change_percent"),
                               Len(results)),
               individual_results |-> results]>>]

\* A projection whose return is taken on the revenue saved, not on the cost.
RoiOverRevenue(customers_saved, avg_revenue_per_user, avg_lifetime_months, implementation_cost) ==
  LET revenue_saved == customers_saved * avg_revenue_per_user
                         * avg_lifetime_months
      net_benefit == revenue_saved - implementation_cost
  IN  IF implementation_cost = 0 \/ avg_lifetime_months = 0
         \/ revenue_saved = 0
      THEN [outcome |-> "ZeroDivisionError", returned |-> <<>>]
      ELSE [outcome |-> "ok",
            returned |-> <<
              [customers_saved |-> customers_saved,
               revenue_saved |-> revenue_saved,
               implementation_cost |-> implementation_cost,
               net_benefit |-> net_benefit,
               roi_percent |->
                 RoundMulDiv(net_benefit, 10000, revenue_saved),
               payback_months |->
                 RoundMulDiv(implementation_cost, 10 * avg_lifetime_months,
                             revenue_saved)]>>]

\* calculate_roi_projection: [outcome, returned].  Money in whole currency
\* units, roi_percent in hundredths of a percent, payback_months in tenths.
calculate_roi_projection(customers_saved, avg_revenue_per_user, avg_lifetime_months, implementation_cost) ==
  LET revenue_saved == customers_saved * avg_revenue_per_user
                         * avg_lifetime_months
      net_benefit == revenue_saved - implementation_cost
  IN  IF implementation_cost = 0 \/ avg_lifetime_months = 0
         \/ revenue_saved = 0
      THEN [outcome |-> "ZeroDivisionError", returned |-> <<>>]
      ELSE [outcome |-> "ok",
            returned |-> <<
              [customers_saved |-> customers_saved,
               revenue_saved |-> revenue_saved,
               implementation_cost |-> implementation_cost,
               net_benefit |-> net_benefit,
               roi_percent |->
                 RoundMulDiv(net_benefit, 10000, implementation_cost),
               payback_months |->
                 RoundMulDiv(implementation_cost, 10 * avg_lifetime_months,
                             revenue_saved)]>>]

(***************************************************************************)
(* Inputs of the calls                                                     *)
(***************************************************************************)
NoFeatures == [k \in {} |-> 0]

AtRisk ==
  [nps_score |-> 0, usage_change_30d |-> -40, days_since_login |-> 40,
   payment_failures_90d |-> 3, support_tickets |-> 9]

Loyal ==
  [nps_score |-> 10, plan_price |-> 2500, avg_monthly_usage_gb |-> 600,
   usage_change_30d |-> 5, days_since_login |-> 1]

\* The environment of one calculate_dynamic_price call: the two readings of
\* datetime.now() (read only when timestamp is None) and what predict_single
\* does on each collaborator (asked only of a fitted one).
Envs(timestamp, nows, segmentations, churns) ==
  {[now1 |-> n[1], now2 |-> n[2], segmentation |-> sg, churn |-> ch] :
     n \in IF timestamp = None THEN nows ELSE {<<0, 0>>},
     sg \in IF is_fitted(segmentation_model) THEN segmentations
            ELSE {<<"unused">>},
     ch \in IF is_fitted(churn_model) THEN churns ELSE {<<"unused">>}}

\* predict_single of a fitted segmentation model: the elasticity of the
\* profile of the predicted cluster, -1.0 for a cluster without profile.
SegmentationOutcomes ==
  {<<"raise">>} \cup {<<"ok", SEGMENT_ELASTICITY[c]>> : c \in 0..4}
    \cup {<<"ok", -100>>}

Collaborators == {"None", "unfitted", "fitted"}

(***************************************************************************)
(* Bounds and input sets of the engine specification                       *)
(***************************************************************************)
\* Behaviours are explored up to this many calls on the engine.
MaxOps == 3

BasePrices == {-100000, 0, 999000}

Customers == {NoFeatures, AtRisk}

Timestamps == {None, Some(20)}

\* Pairs of datetime.now() readings of one call: within the hour 22:00 of a
\* Monday, or across its end.
NowPairs == {<<22, 22>>, <<22, 23>>}

SegmentationResults == {<<"raise">>, <<"ok", -30>>}

ChurnResults == {<<"raise">>, <<"ok", 500>>}

AlphaArgs == {None, Some(0), Some(50)}

BetaArgs == {None, Some(0)}

GammaArgs == {None, Some(0)}

HistoryLimits == {0, 1, 100}

ScenarioLists ==
  {<<"peak_weekday">>, <<"offpeak_weekend", "peak_weekday">>,
   <<"flash_sale">>}

BatchCustomers == {<<>>, <<NoFeatures>>, <<NoFeatures, AtRisk>>}

BatchPrices == {<<>>, <<999000>>, <<999000, -100000>>}

RoiArgs ==
  {<<700, 500, 24, 1000000>>, <<0, 500, 24, 1000000>>,
   <<700, 0, 24, 1000000>>, <<700, 500, 0, 1000000>>,
   <<700, 500, 24, 0>>}

(***************************************************************************)
(* The engine as a state machine: one action per public method             *)
(***************************************************************************)
\* The threads that call the engine, and the frame of a thread that is in
\* no call.
Threads == {"pricer", "pricer2", "admin"}

Idle ==
  [pc |-> "idle", call |-> <<>>, alpha |-> None, beta |-> None,
   gamma |-> None]

\* The globals of api/main.py and of the three route modules as the
\* modules are imported: no model, nothing loaded.
ServiceAtImport ==
  [churn_model |-> "None", segmentation_model |-> "None",
   models_loaded |-> [churn |-> FALSE, segmentation |-> FALSE,
                      pricing |-> FALSE],
   churn_route |-> "None", segmentation_route |-> "None",
   pricing_route |-> [pricing_engine |-> "None", churn_model |-> "None",
                      segmentation_model |-> "None"]]

\* DynamicPricingEngine.__init__
Init ==
  /\ service = ServiceAtImport
  /\ heap = [o \in {1} |-> PRICING_CONFIG.weights]
  /\ weights = 1
  /\ constraints = PRICING_CONFIG.constraints
  /\ demand_factors = PRICING_CONFIG.demand_factors
  /\ churn_model = "None"
  /\ segmentation_model = "None"
  /\ pricing_history = <<>>
  /\ running = [t \in Threads |-> Idle]
  /\ configurations = {PRICING_CONFIG.weights}
  /\ last = [op |-> "__init__", args |-> <<>>, outcome |-> "ok",
             returned |-> <<>>, calls |-> {}]
  /\ ops = 0

SetModels ==
  /\ ops < MaxOps
  /\ \E c \in Collaborators, sg \in Collaborators :
       /\ churn_model' = c
       /\ segmentation_model' = sg
       /\ last' = [op |-> "set_models", args |-> <<c, sg>>,
                   outcome |-> "ok", returned |-> <<>>, calls |-> {}]
  /\ ops' = ops + 1
  /\ UNCHANGED service
  /\ UNCHANGED <<running, configurations, heap, weights, constraints,
                 demand_factors,
                 pricing_history>>

CalculateDynamicPrice(bases, customers, stamps, nows, segmentations, churns) ==
  /\ \E base_price \in bases, features \in customers, timestamp \in stamps :
       \E env \in Envs(timestamp, nows, segmentations, churns) :
         \E c \in {calculate_dynamic_price(base_price, features, timestamp,
                                            env)} :
             /\ pricing_history' = AppendHistory(pricing_history, c.returned)
             /\ last' = [op |-> "calculate_dynamic_price",
                         args |-> <<base_price, features, timestamp>>,
                         outcome |-> c.outcome,
                         returned |-> c.returned, calls |-> c.calls]
  /\ ops' = ops + 1
  /\ UNCHANGED service
  /\ UNCHANGED <<running, configurations, heap, weights, constraints,
                 demand_factors,
                 churn_model, segmentation_model>>

SimulatePricingScenarios ==
  /\ ops < MaxOps
  /\ \E base_price \in BasePrices, features \in Customers,
        scenarios \in ScenarioLists :
       \E envs \in [1..Len(scenarios) ->
                      Envs(None, NowPairs, SegmentationResults,
                           ChurnResults)] :
         \E run \in {PriceEach(ScenarioRequests(base_price, features,
                                                 scenarios, envs))} :
             /\ pricing_history' = AppendHistory(pricing_history,
                                                 run.returned)
             /\ last' = [op |-> "simulate_pricing_scenarios",
                         args |-> <<base_price, scenarios>>,
                         outcome |-> run.outcome,
                         returned |->
                           IF run.outcome = "ok"
                           THEN <<ScenarioResults(scenarios, run.returned)>>
                           ELSE <<>>,
                         calls |-> run.calls]
  /\ ops' = ops + 1
  /\ UNCHANGED service
  /\ UNCHANGED <<running, configurations, heap, weights, constraints,
                 demand_factors,
                 churn_model, segmentation_model>>

OptimizeRevenue ==
  /\ ops < MaxOps
  /\ \E customers \in BatchCustomers, base_prices \in BatchPrices :
       \E envs \in [1..Min(Len(customers), Len(base_prices)) ->
                      Envs(None, NowPairs, SegmentationResults,
                           ChurnResults)] :
         \E run \in {PriceEach(OptimizeRequests(customers, base_prices,
                                                 envs))} :
           \E summary \in {OptimizeSummary(customers, run.returned)} :
             /\ pricing_history' = AppendHistory(pricing_history,
                                                 run.returned)
             /\ last' = [op |-> "optimize_revenue",
                         args |-> <<customers, base_prices>>,
                         outcome |-> IF run.outcome = "ok"
                                     THEN summary.outcome ELSE run.outcome,
                         returned |-> IF run.outcome = "ok"
                                      THEN summary.returned ELSE <<>>,
                         calls |-> run.calls]
  /\ ops' = ops + 1
  /\ UNCHANGED service
  /\ UNCHANGED <<running, configurations, heap, weights, constraints,
                 demand_factors,
                 churn_model, segmentation_model>>

UpdateWeights(alphas, betas, gammas) ==
  /\ \E alpha \in alphas, beta \in betas, gamma \in gammas :
       /\ heap' = [heap EXCEPT
                     ![weights] = update_weights(heap[weights], alpha, beta,
                                                 gamma)]
       /\ last' = [op |-> "update_weights", args |-> <<alpha, beta, gamma>>,
                   outcome |-> "ok", returned |-> <<>>, calls |-> {}]
  /\ ops' = ops + 1
  /\ configurations' = configurations \cup {heap'[weights]}
  /\ UNCHANGED service
  /\ UNCHANGED <<running, weights, constraints, demand_factors, churn_model,
                 segmentation_model, pricing_history>>

GetPricingHistory ==
  /\ ops < MaxOps
  /\ \E limit \in HistoryLimits :
       last' = [op |-> "get_pricing_history", args |-> <<limit>>,
                outcome |-> "ok",
                returned |-> <<get_pricing_history(pricing_history, limit)>>,
                calls |-> {}]
  /\ ops' = ops + 1
  /\ UNCHANGED service
  /\ UNCHANGED <<running, configurations, heap, weights, constraints,
                 demand_factors,
                 churn_model, segmentation_model, pricing_history>>

CalculateRoiProjection(args) ==
  /\ \E a \in args :
       \E r \in {calculate_roi_projection(a[1], a[2], a[3], a[4])} :
           last' = [op |-> "calculate_roi_projection", args |-> a,
                    outcome |-> r.outcome, returned |-> r.returned,
                    calls |-> {}]
  /\ ops' = ops + 1
  /\ UNCHANGED service
  /\ UNCHANGED <<running, configurations, heap, weights, constraints,
                 demand_factors,
                 churn_model, segmentation_model, pricing_history>>

Next ==
  \/ SetModels
  \/ ops < MaxOps /\ CalculateDynamicPrice(BasePrices, Customers, Timestamps,
                                           NowPairs, SegmentationResults,
                                           ChurnResults)
  \/ SimulatePricingScenarios
  \/ OptimizeRevenue
  \/ ops < MaxOps /\ UpdateWeights(AlphaArgs, BetaArgs, GammaArgs)
  \/ GetPricingHistory
  \/ ops < MaxOps /\ CalculateRoiProjection(RoiArgs)

Spec == Init /\ [][Next]_vars

(***************************************************************************)
(* The price calculation over a wide range of inputs: the first            *)
(* calculations of an engine whose weights and collaborators have been     *)
(* set to anything by update_weights and set_models.                       *)
(***************************************************************************)
\* A calculation is made while the history is shorter than this.
MaxPriced == 1

\* 0.004, 999.00, 1999.00 and -100.00
WideBasePrices == {4, 999000, 1999000, -100000}

WideCustomers == {NoFeatures, AtRisk, Loyal}

\* now, Monday 20:00, Monday 10:00, Saturday 20:00
WideTimestamps == {None, Some(20), Some(10), Some(5 * 24 + 20)}

WideChurnResults == {<<"raise">>, <<"ok", 0>>, <<"ok", 10000>>}

WideAlphaArgs == {None, Some(-100), Some(300)}

WideBetaArgs == {None, Some(300)}

WideGammaArgs == {None, Some(-100), Some(0), Some(300)}

PriceNext ==
  \/ SetModels
  \/ ops < MaxOps /\ UpdateWeights(WideAlphaArgs, WideBetaArgs, WideGammaArgs)
  \/ /\ ops < MaxOps
     /\ Len(pricing_history) < MaxPriced
     /\ CalculateDynamicPrice(WideBasePrices, WideCustomers, WideTimestamps,
                              NowPairs, SegmentationOutcomes,
                              WideChurnResults)

PriceSpec == Init /\ [][PriceNext]_vars

(***************************************************************************)
(* The estimators called on their own, between other calls on the engine.  *)
(***************************************************************************)
\* Every whole hour of a week: Monday 00:00 is 0, Sunday 23:00 is 167.
HoursOfWeek == 0..(7 * 24 - 1)

EstimateTimestamps == {None} \cup {Some(t) : t \in HoursOfWeek}

\* Readings of datetime.now(): Monday 22:00 and 23:00.
EstimateNows == {22, 23}

\* Feature values at and beyond the ends of their scales, and the feature
\* sets that carry all of them, all but one, one alone or none.
FeatureRows ==
  {[nps_score |-> 0, plan_price |-> 0, avg_monthly_usage_gb |-> 0,
    usage_change_30d |-> -40, days_since_login |-> 40,
    payment_failures_90d |-> 3, support_tickets |-> 9],
   [nps_score |-> 10, plan_price |-> 2500, avg_monthly_usage_gb |-> 600,
    usage_change_30d |-> 5, days_since_login |-> 1,
    payment_failures_90d |-> 0, support_tickets |-> 0],
   [nps_score |-> 20, plan_price |-> 2500, avg_monthly_usage_gb |-> 600,
    usage_change_30d |-> 40, days_since_login |-> 0,
    payment_failures_90d |-> 0, support_tickets |-> 0],
   [nps_score |-> -20, plan_price |-> 100, avg_monthly_usage_gb |-> 10,
    usage_change_30d |-> -40, days_since_login |-> 40,
    payment_failures_90d |-> 5, support_tickets |-> 9]}

FeatureKeys ==
  {"nps_score", "plan_price", "avg_monthly_usage_gb", "usage_change_30d",
   "days_since_login", "payment_failures_90d", "support_tickets"}

FeatureKeySets ==
  {{}, FeatureKeys} \cup {{k} : k \in FeatureKeys}
    \cup {FeatureKeys \ {k} : k \in FeatureKeys}

EstimateCustomers ==
  {[k \in keys |-> row[k]] : keys \in FeatureKeySets, row \in FeatureRows}

\* predict_single of a fitted churn model: a probability rounded to four
\* places, or an exception.
ChurnOutcomes == {<<"raise">>, <<"ok", 0>>, <<"ok", 4237>>, <<"ok", 10000>>}

\* calculate_demand_factor(timestamp)
CalculateDemandFactor(stamps, nows) ==
  /\ \E timestamp \in stamps, now \in nows :
       last' = [op |-> "calculate_demand_factor",
                args |-> <<timestamp>>, outcome |-> "ok",
                returned |->
                  <<calculate_demand_factor(
                      demand_factors, DemandTimestamp(timestamp, now))>>,
                calls |-> {}]
  /\ ops' = ops + 1
  /\ UNCHANGED service
  /\ UNCHANGED <<running, configurations, heap, weights, constraints,
                 demand_factors, churn_model, segmentation_model,
                 pricing_history>>

\* estimate_price_elasticity(customer_features)
EstimatePriceElasticity(customers, outcomes) ==
  /\ \E features \in customers :
       \E outcome \in IF is_fitted(segmentation_model) THEN outcomes
                      ELSE {<<"unused">>} :
         \E e \in {estimate_price_elasticity(segmentation_model, features,
                                             outcome)} :
           last' = [op |-> "estimate_price_elasticity",
                    args |-> <<features>>,
                    outcome |-> IF e.raised THEN "CollaboratorError"
                                ELSE "ok",
                    returned |-> IF e.raised THEN <<>> ELSE <<e.value>>,
                    calls |-> e.calls]
  /\ ops' = ops + 1
  /\ UNCHANGED service
  /\ UNCHANGED <<running, configurations, heap, weights, constraints,
                 demand_factors, churn_model, segmentation_model,
                 pricing_history>>

\* calculate_churn_risk(customer_features)
CalculateChurnRisk(customers, outcomes) ==
  /\ \E features \in customers :
       \E outcome \in IF is_fitted(churn_model) THEN outcomes
                      ELSE {<<"unused">>} :
         \E r \in {calculate_churn_risk(churn_model, features, outcome)} :
           last' = [op |-> "calculate_churn_risk",
                    args |-> <<features>>,
                    outcome |-> IF r.raised THEN "CollaboratorError"
                                ELSE "ok",
                    returned |-> IF r.raised THEN <<>> ELSE <<r.value>>,
                    calls |-> r.calls]
  /\ ops' = ops + 1
  /\ UNCHANGED service
  /\ UNCHANGED <<running, configurations, heap, weights, constraints,
                 demand_factors, churn_model, segmentation_model,
                 pricing_history>>

\* price_change_percent values at and beside the thresholds: -20.01,
\* -20.00, -19.99 and so on.
BandEdges ==
  {-2001, -2000, -1999, -1001, -1000, -999, -1, 0, 1, 999, 1000, 1001}

\* _generate_recommendation(pricing_result), for a pricing_result with the
\* given price_change_percent.
GenerateRecommendation(percents) ==
  /\ \E change_pct \in percents :
       last' = [op |-> "_generate_recommendation", args |-> <<change_pct>>,
                outcome |-> "ok",
                returned |-> <<generate_recommendation(change_pct)>>,
                calls |-> {}]
  /\ ops' = ops + 1
  /\ UNCHANGED service
  /\ UNCHANGED <<running, configurations, heap, weights, constraints,
                 demand_factors, churn_model, segmentation_model,
                 pricing_history>>

EstimateNext ==
  \/ SetModels
  \/ ops < MaxOps /\ UpdateWeights({Some(50)}, {None}, {Some(0)})
  \/ ops < MaxOps /\ CalculateDynamicPrice({999000}, {NoFeatures},
                                           Timestamps, NowPairs,
                                           SegmentationResults, ChurnResults)
  \/ ops < MaxOps /\ CalculateDemandFactor(EstimateTimestamps, EstimateNows)
  \/ ops < MaxOps /\ EstimatePriceElasticity(EstimateCustomers,
                                             SegmentationOutcomes)
  \/ ops < MaxOps /\ CalculateChurnRisk(EstimateCustomers, ChurnOutcomes)
  \/ ops < MaxOps /\ GenerateRecommendation(BandEdges)

EstimateSpec == Init /\ [][EstimateNext]_vars

(***************************************************************************)
(* simulate_pricing_scenarios over the four default scenarios, listed in   *)
(* different orders and run repeatedly.  A fitted collaborator predicts    *)
(* from the features alone: what it does is the same in every call of a    *)
(* run and is recorded with the arguments.                                 *)
(***************************************************************************)
ScenarioOrders ==
  {CanonicalScenarios,
   <<"offpeak_weekend", "peak_weekend", "offpeak_weekday", "peak_weekday">>,
   <<"peak_weekend", "peak_weekday", "offpeak_weekend", "offpeak_weekday">>}

SimulateScenarios(bases, customers, orders, segmentations, churns) ==
  /\ \E base_price \in bases, features \in customers, scenarios \in orders :
       \E env \in Envs(Some(0), {}, segmentations, churns) :
         \E run \in {PriceEach(ScenarioRequests(
                                 base_price, features, scenarios,
                                 [i \in 1..Len(scenarios) |-> env]))} :
           /\ pricing_history' = AppendHistory(pricing_history,
                                               run.returned)
           /\ last' = [op |-> "simulate_pricing_scenarios",
                       args |-> <<base_price, scenarios, features, env>>,
                       outcome |-> run.outcome,
                       returned |->
                         IF run.outcome = "ok"
                         THEN <<ScenarioResults(scenarios, run.returned)>>
                         ELSE <<>>,
                       calls |-> run.calls]
  /\ ops' = ops + 1
  /\ UNCHANGED service
  /\ UNCHANGED <<running, configurations, heap, weights, constraints,
                 demand_factors, churn_model, segmentation_model>>

ScenarioNext ==
  \/ SetModels
  \/ ops < MaxOps /\ UpdateWeights(AlphaArgs, {None}, {None})
  \/ ops < MaxOps /\ SimulateScenarios({799000}, {AtRisk}, ScenarioOrders,
                                       SegmentationResults, ChurnResults)

ScenarioSpec == Init /\ [][ScenarioNext]_vars

(***************************************************************************)
(* optimize_revenue over batches of different customers and prices, prices *)
(* below one cent apart included.  The environment of each customer's      *)
(* calculation is recorded with the arguments.                             *)
(***************************************************************************)
RevenueCustomers == {<<NoFeatures, AtRisk>>, <<AtRisk, NoFeatures>>, <<Loyal>>}

RevenuePrices == {<<999000, 1999500>>, <<10004, 10004>>, <<799000>>}

OptimizeRevenueOf(batches, prices, nows, segmentations, churns) ==
  /\ \E customers \in batches, base_prices \in prices :
       \E envs \in [1..Min(Len(customers), Len(base_prices)) ->
                      Envs(None, nows, segmentations, churns)] :
         \E run \in {PriceEach(OptimizeRequests(customers, base_prices,
                                                 envs))} :
           \E summary \in {OptimizeSummary(customers, run.returned)} :
             /\ pricing_history' = AppendHistory(pricing_history,
                                                 run.returned)
             /\ last' = [op |-> "optimize_revenue",
                         args |-> <<customers, base_prices, envs>>,
                         outcome |-> IF run.outcome = "ok"
                                     THEN summary.outcome ELSE run.outcome,
                         returned |-> IF run.outcome = "ok"
                                      THEN summary.returned ELSE <<>>,
                         calls |-> run.calls]
  /\ ops' = ops + 1
  /\ UNCHANGED service
  /\ UNCHANGED <<running, configurations, heap, weights, constraints,
                 demand_factors, churn_model, segmentation_model>>

RevenueNext ==
  \/ SetModels
  \/ ops < MaxOps /\ UpdateWeights(AlphaArgs, {None}, {None})
  \/ ops < MaxOps /\ OptimizeRevenueOf(RevenueCustomers, RevenuePrices,
                                       NowPairs, SegmentationResults,
                                       ChurnResults)

RevenueSpec == Init /\ [][RevenueNext]_vars

(***************************************************************************)
(* calculate_dynamic_price with a fitted segmentation model that predicts  *)
(* elasticities inside, at the ends of and outside [-2.5, -0.2].           *)
(***************************************************************************)
ElasticityOutcomes ==
  {<<"ok", e>> : e \in {-400, -251, -250, -249, -135, -21, -20, -19, 0, 100}}

FactorNext ==
  \/ SetModels
  \/ ops < MaxOps /\ CalculateDynamicPrice({999000}, {NoFeatures, Loyal},
                                           {Some(20)}, NowPairs,
                                           ElasticityOutcomes, ChurnResults)

FactorSpec == Init /\ [][FactorNext]_vars

(***************************************************************************)
(* calculate_roi_projection on an engine in use, for projections with a    *)
(* gain and with a loss.                                                   *)
(***************************************************************************)
WideRoiArgs ==
  RoiArgs \cup {<<100, 300, 12, 500000>>, <<7, 33, 3, 900>>}

RoiNext ==
  \/ SetModels
  \/ ops < MaxOps /\ UpdateWeights(AlphaArgs, {None}, {None})
  \/ ops < MaxOps /\ CalculateDynamicPrice({999000}, {NoFeatures},
                                           Timestamps, NowPairs,
                                           SegmentationResults, ChurnResults)
  \/ ops < MaxOps /\ CalculateRoiProjection(WideRoiArgs)

RoiSpec == Init /\ [][RoiNext]_vars

(***************************************************************************)
(* The API service (api/main.py and the route modules): load_models at     *)
(* startup and on reload, the health endpoint, the direct churn and        *)
(* segmentation endpoints and the pricing endpoints.  The weights dict of  *)
(* PRICING_CONFIG is an object of the heap beside the engine's own.        *)
(***************************************************************************)
\* The heap ids of PRICING_CONFIG["weights"] and of the weights dict of
\* the engine load_models creates (the engine it replaces is dropped).
ConfigObject == 0

EngineObject == 1

\* No copy: the object itself.
SameObject(ref, fresh) == ref

\* dict.copy(): a new object with the contents of the one copied.
Copy(ref, fresh) == fresh

\* A readiness check that lets every model through.
NeverUnready(model) == "ok"

\* get_model of the churn and segmentation routes: HTTP 503 for a model
\* that is None or not fitted.
get_model(model) ==
  IF model = "None" \/ ~is_fitted(model) THEN "HTTP503" ELSE "ok"

\* get_engine of the pricing routes: HTTP 503 for no engine.
get_engine(pricing_engine) ==
  IF pricing_engine = "None" THEN "HTTP503" ELSE "ok"

\* What pricing_model.joblib may hold when it is read.
SavedConfigs ==
  {[weights |-> [alpha |-> 30, beta |-> 10, gamma |-> 20],
    constraints |-> PRICING_CONFIG.constraints,
    demand_factors |-> PRICING_CONFIG.demand_factors],
   [weights |-> PRICING_CONFIG.weights,
    constraints |-> [min_discount |-> -10, max_premium |-> 10,
                     churn_threshold |-> 70],
    demand_factors |-> PRICING_CONFIG.demand_factors]}

\* The model files as one run of load_models finds them: missing
\* (FileNotFoundError), unreadable (any other exception) or loadable.
ModelFiles == {"missing", "corrupt", "model"}

FileStates ==
  [churn : ModelFiles, segmentation : ModelFiles,
   pricing : {<<"missing">>, <<"corrupt">>}
               \cup {<<"saved", c>> : c \in SavedConfigs}]

\* load_models on the service globals svc with the files as given;
\* config_weights is the contents of PRICING_CONFIG["weights"].  The value
\* is the globals and the new engine after the run.
load_models(svc, files, config_weights) ==
  LET churn_loaded == files.churn = "model"
      segmentation_loaded == files.segmentation = "model"
      new_churn == IF churn_loaded THEN "fitted" ELSE "unfitted"
      new_segmentation == IF segmentation_loaded THEN "fitted"
                          ELSE "unfitted"
      loaded == [churn |-> churn_loaded \/ svc.models_loaded.churn,
                 segmentation |-> segmentation_loaded
                                    \/ svc.models_loaded.segmentation,
                 pricing |-> TRUE]
      saved == files.pricing[1] = "saved"
      w == IF saved THEN EngineObject
           ELSE Copy(ConfigObject, EngineObject)
      \* lines 88-91, then pricing.set_models of line 94
      attached == [churn_model |-> IF loaded.churn THEN new_churn
                                   ELSE "None",
                   segmentation_model |-> IF loaded.segmentation
                                          THEN new_segmentation
                                          ELSE "None"]
      routed == [attached EXCEPT !.churn_model = new_churn,
                                 !.segmentation_model = new_segmentation]
  IN  [service |->
         [churn_model |-> new_churn,
          segmentation_model |-> new_segmentation,
          models_loaded |-> loaded,
          churn_route |-> IF churn_loaded THEN new_churn
                          ELSE svc.churn_route,
          segmentation_route |-> IF segmentation_loaded
                                 THEN new_segmentation
                                 ELSE svc.segmentation_route,
          pricing_route |-> [pricing_engine |-> "engine",
                             churn_model |-> new_churn,
                             segmentation_model |-> new_segmentation]],
       heap |-> [o \in {ConfigObject, w} |->
                   IF o = ConfigObject THEN config_weights
                   ELSE IF saved THEN files.pricing[2].weights
                   ELSE config_weights],
       weights |-> w,
       constraints |-> IF saved THEN files.pricing[2].constraints
                       ELSE PRICING_CONFIG.constraints,
       demand_factors |-> IF saved THEN files.pricing[2].demand_factors
                          ELSE PRICING_CONFIG.demand_factors,
       churn_model |-> routed.churn_model,
       segmentation_model |-> routed.segmentation_model]

\* The service when it starts to serve: lifespan has run load_models.
ServiceInit ==
  \E files \in FileStates :
    \E r \in {load_models(ServiceAtImport, files, PRICING_CONFIG.weights)} :
      /\ service = r.service
      /\ heap = r.heap
      /\ weights = r.weights
      /\ constraints = r.constraints
      /\ demand_factors = r.demand_factors
      /\ churn_model = r.churn_model
      /\ segmentation_model = r.segmentation_model
      /\ pricing_history = <<>>
      /\ running = [t \in Threads |-> Idle]
      /\ configurations = {r.heap[r.weights]}
      /\ last = [op |-> "load_models", args |-> <<files>>,
                 outcome |-> "ok", returned |-> <<r.service.models_loaded>>,
                 calls |-> {}]
      /\ ops = 0

\* POST /api/ml/reload-models
ReloadModels ==
  /\ \E files \in FileStates :
       \E r \in {load_models(service, files, heap[ConfigObject])} :
         /\ service' = r.service
         /\ heap' = r.heap
         /\ weights' = r.weights
         /\ constraints' = r.constraints
         /\ demand_factors' = r.demand_factors
         /\ churn_model' = r.churn_model
         /\ segmentation_model' = r.segmentation_model
         /\ pricing_history' = <<>>
         /\ configurations' = configurations \cup {r.heap[r.weights]}
         /\ last' = [op |-> "reload_models", args |-> <<files>>,
                     outcome |-> "ok",
                     returned |-> <<r.service.models_loaded>>,
                     calls |-> {}]
  /\ ops' = ops + 1
  /\ UNCHANGED running

\* GET /health
HealthCheck ==
  /\ last' = [op |-> "health_check", args |-> <<>>, outcome |-> "ok",
              returned |-> <<[status |->
                                IF \A m \in DOMAIN service.models_loaded :
                                     service.models_loaded[m]
                                THEN "healthy" ELSE "degraded",
                              models_loaded |-> service.models_loaded]>>,
              calls |-> {}]
  /\ ops' = ops + 1
  /\ UNCHANGED <<service, running, configurations, heap, weights,
                 constraints, demand_factors, churn_model,
                 segmentation_model, pricing_history>>

\* An endpoint of a direct route: get_model, then predict_single.
PredictOn(op, name, model, customers, outcomes) ==
  /\ \E features \in customers, outcome \in outcomes :
       \E r \in {predict_single(model, outcome)} :
         last' = IF get_model(model) # "ok"
                 THEN [op |-> op, args |-> <<features>>,
                       outcome |-> get_model(model), returned |-> <<>>,
                       calls |-> {}]
                 ELSE [op |-> op, args |-> <<features>>,
                       outcome |-> IF r.raised THEN "Exception" ELSE "ok",
                       returned |-> IF r.raised THEN <<>> ELSE <<r.value>>,
                       calls |-> {<<name, model>>}]
  /\ ops' = ops + 1
  /\ UNCHANGED <<service, running, configurations, heap, weights,
                 constraints, demand_factors, churn_model,
                 segmentation_model, pricing_history>>

\* POST /api/ml/churn/predict
PredictChurn ==
  PredictOn("predict_churn", "churn", service.churn_route, Customers,
            ChurnResults)

\* POST /api/ml/segmentation/predict
PredictSegment ==
  PredictOn("predict_segment", "segmentation", service.segmentation_route,
            Customers, SegmentationResults)

\* POST /api/ml/pricing/calculate: get_engine, then the engine's method.
PricingCalculate ==
  IF get_engine(service.pricing_route.pricing_engine) # "ok"
  THEN /\ last' = [op |-> "calculate_dynamic_price", args |-> <<>>,
                   outcome |-> "HTTP503", returned |-> <<>>, calls |-> {}]
       /\ ops' = ops + 1
       /\ UNCHANGED <<service, running, configurations, heap, weights,
                      constraints, demand_factors, churn_model,
                      segmentation_model, pricing_history>>
  ELSE CalculateDynamicPrice({999000}, Customers, Timestamps, NowPairs,
                             SegmentationResults, ChurnResults)

\* PUT /api/ml/pricing/weights
PricingWeights ==
  /\ get_engine(service.pricing_route.pricing_engine) = "ok"
  /\ UpdateWeights(AlphaArgs, {None}, {None})

ServiceNext ==
  \/ ops < MaxOps /\ ReloadModels
  \/ ops < MaxOps /\ HealthCheck
  \/ ops < MaxOps /\ PredictChurn
  \/ ops < MaxOps /\ PredictSegment
  \/ ops < MaxOps /\ PricingCalculate
  \/ ops < MaxOps /\ PricingWeights

ServiceSpec == ServiceInit /\ [][ServiceNext]_vars

(***************************************************************************)
(* calculate_dynamic_price and update_weights called from two threads.     *)
(* Nothing in either method orders them: each statement that reads or      *)
(* writes self.weights is a step of its own.                               *)
(***************************************************************************)
ConcBasePrices == {999000}

\* The steps of calculate_dynamic_price on thread t.
\* Lines 194-197: the factors are estimated; line 200 is next.
BeginCalculateOn(t, bases, customers, stamps) ==
  /\ ops < MaxOps
  /\ running[t].pc = "idle"
  /\ \E base_price \in bases, features \in customers,
        timestamp \in stamps :
       \E env \in Envs(timestamp, NowPairs, SegmentationResults,
                       ChurnResults) :
         \E f \in {EstimateFactors(features, timestamp, env)} :
           IF f.raised
           THEN /\ last' = [op |-> "calculate_dynamic_price",
                            args |-> <<base_price, features, timestamp>>,
                            outcome |-> "CollaboratorError",
                            returned |-> <<>>, calls |-> f.calls]
                /\ UNCHANGED running
           ELSE /\ running' =
                     [running EXCEPT
                        ![t] =
                          [Idle EXCEPT
                             !.pc = "alpha",
                             !.call = [base_price |-> base_price,
                                       features |-> features,
                                       timestamp |-> timestamp,
                                       env |-> env, factors |-> f]]]
                /\ UNCHANGED last
  /\ ops' = ops + 1
  /\ UNCHANGED service
  /\ UNCHANGED <<configurations, heap, weights, constraints, demand_factors,
                 churn_model, segmentation_model, pricing_history>>

\* Line 200: alpha = self.weights["alpha"]
ReadAlphaOn(t) ==
  /\ running[t].pc = "alpha"
  /\ running' = [running EXCEPT ![t].alpha = Some(heap[weights].alpha),
                                ![t].pc = "beta"]
  /\ UNCHANGED service
  /\ UNCHANGED <<configurations, heap, weights, constraints, demand_factors,
                 churn_model, segmentation_model, pricing_history, last, ops>>

\* Line 201: beta = self.weights["beta"]
ReadBetaOn(t) ==
  /\ running[t].pc = "beta"
  /\ running' = [running EXCEPT ![t].beta = Some(heap[weights].beta),
                                ![t].pc = "gamma"]
  /\ UNCHANGED service
  /\ UNCHANGED <<configurations, heap, weights, constraints, demand_factors,
                 churn_model, segmentation_model, pricing_history, last, ops>>

\* Line 202: gamma = self.weights["gamma"]
ReadGammaOn(t) ==
  /\ running[t].pc = "gamma"
  /\ running' = [running EXCEPT ![t].gamma = Some(heap[weights].gamma),
                                ![t].pc = "compute"]
  /\ UNCHANGED service
  /\ UNCHANGED <<configurations, heap, weights, constraints, demand_factors,
                 churn_model, segmentation_model, pricing_history, last, ops>>

\* The three weights a calculation has read.
WeightsRead(frame) ==
  [alpha |-> The(frame.alpha), beta |-> The(frame.beta),
   gamma |-> The(frame.gamma)]

\* Lines 204-257: the result is computed from the weights read, appended
\* and returned.
FinishCalculateOn(t) ==
  /\ running[t].pc = "compute"
  /\ LET frame == running[t]
         q == frame.call
         stamp == IF q.timestamp # None THEN The(q.timestamp)
                  ELSE q.env.now2
     IN  \E returned \in
              {IF q.base_price = 0 THEN <<>>
               ELSE <<PricingResult(WeightsRead(frame), weights,
                                    q.base_price, q.factors.demand_factor,
                                    q.factors.elasticity,
                                    q.factors.churn_risk, stamp)>>} :
           /\ pricing_history' = AppendHistory(pricing_history, returned)
           /\ last' = [op |-> "calculate_dynamic_price",
                       args |-> <<q.base_price, q.features, q.timestamp>>,
                       outcome |-> IF returned = <<>>
                                   THEN "ZeroDivisionError" ELSE "ok",
                       returned |-> returned, calls |-> q.factors.calls]
  /\ running' = [running EXCEPT ![t] = Idle]
  /\ UNCHANGED service
  /\ UNCHANGED <<configurations, heap, weights, constraints, demand_factors,
                 churn_model, segmentation_model, ops>>

\* The price calculations of the thread that runs beside update_weights.
BeginCalculate ==
  BeginCalculateOn("pricer", ConcBasePrices, Customers, Timestamps)

ReadAlpha == ReadAlphaOn("pricer")

ReadBeta == ReadBetaOn("pricer")

ReadGamma == ReadGammaOn("pricer")

FinishCalculate == FinishCalculateOn("pricer")

\* update_weights is called: line 368 is next.
BeginUpdate ==
  /\ ops < MaxOps
  /\ running["admin"].pc = "idle"
  /\ \E alpha \in AlphaArgs, beta \in BetaArgs, gamma \in GammaArgs :
       /\ running' = [running EXCEPT
                        !["admin"] = [Idle EXCEPT !.pc = "alpha",
                                                  !.alpha = alpha,
                                                  !.beta = beta,
                                                  !.gamma = gamma]]
       /\ configurations' =
            configurations \cup {update_weights(heap[weights], alpha, beta,
                                                gamma)}
  /\ ops' = ops + 1
  /\ UNCHANGED service
  /\ UNCHANGED <<heap, weights, constraints, demand_factors,
                 churn_model, segmentation_model, pricing_history, last>>

\* Lines 368-369: if alpha is not None: self.weights["alpha"] = alpha
WriteAlpha ==
  /\ running["admin"].pc = "alpha"
  /\ heap' = [heap EXCEPT
                ![weights] = update_weights(heap[weights],
                                            running["admin"].alpha, None,
                                            None)]
  /\ running' = [running EXCEPT !["admin"].pc = "beta"]
  /\ UNCHANGED service
  /\ UNCHANGED <<configurations, weights, constraints, demand_factors,
                 churn_model, segmentation_model, pricing_history, last, ops>>

\* Lines 370-371: if beta is not None: self.weights["beta"] = beta
WriteBeta ==
  /\ running["admin"].pc = "beta"
  /\ heap' = [heap EXCEPT
                ![weights] = update_weights(heap[weights], None,
                                            running["admin"].beta, None)]
  /\ running' = [running EXCEPT !["admin"].pc = "gamma"]
  /\ UNCHANGED service
  /\ UNCHANGED <<configurations, weights, constraints, demand_factors,
                 churn_model, segmentation_model, pricing_history, last, ops>>

\* Lines 372-375: if gamma is not None: self.weights["gamma"] = gamma, and
\* the method returns.
WriteGamma ==
  /\ running["admin"].pc = "gamma"
  /\ heap' = [heap EXCEPT
                ![weights] = update_weights(heap[weights], None, None,
                                            running["admin"].gamma)]
  /\ last' = [op |-> "update_weights",
              args |-> <<running["admin"].alpha, running["admin"].beta,
                         running["admin"].gamma>>,
              outcome |-> "ok", returned |-> <<>>, calls |-> {}]
  /\ running' = [running EXCEPT !["admin"] = Idle]
  /\ UNCHANGED service
  /\ UNCHANGED <<configurations, weights, constraints, demand_factors,
                 churn_model, segmentation_model, pricing_history, ops>>

ConcNext ==
  \/ BeginCalculate
  \/ ReadAlpha
  \/ ReadBeta
  \/ ReadGamma
  \/ FinishCalculate
  \/ BeginUpdate
  \/ WriteAlpha
  \/ WriteBeta
  \/ WriteGamma

ConcSpec == Init /\ [][ConcNext]_vars

(***************************************************************************)
(* calculate_dynamic_price called from several threads at once.  The       *)
(* append of line 255 is one list.append call, which the interpreter       *)
(* runs as a single step.                                                  *)
(***************************************************************************)
Pricers == {"pricer", "pricer2"}

\* 999.00 and 1999.00
AppendBasePrices == {999000, 1999000}

AppendNext ==
  \E t \in Pricers :
    \/ BeginCalculateOn(t, AppendBasePrices, Customers, Timestamps)
    \/ ReadAlphaOn(t)
    \/ ReadBetaOn(t)
    \/ ReadGammaOn(t)
    \/ FinishCalculateOn(t)

AppendSpec == Init /\ [][AppendNext]_vars

(***************************************************************************)
(* Properties                                                              *)
(***************************************************************************)
\* The operations that price: each makes calculate_dynamic_price calls.
PricingOps ==
  {"calculate_dynamic_price", "simulate_pricing_scenarios",
   "optimize_revenue"}

\* A result as its reader sees it: the "weights" entry is the engine's
\* weights dict itself, read when the result is.
Recorded(result) == [result EXCEPT !.weights = heap[result.weights]]

HistoryContents ==
  [i \in 1..Len(pricing_history) |-> Recorded(pricing_history[i])]

\* C1: whatever the features, the timestamp, the attached collaborators and
\* the weights update_weights has set, the adjustment of every price
\* calculation lies between min_discount and max_premium, and so does the
\* price change it produces on a positive base price.
C1_AdjustmentWithinConstraints ==
  \A i \in 1..Len(pricing_history) :
    LET r == pricing_history[i]
    IN  /\ constraints.min_discount * 100 <= r.adjustment
        /\ r.adjustment <= constraints.max_premium * 100
        /\ r.base_price > 0 =>
             /\ constraints.min_discount * 100 <= r.price_change_percent
             /\ r.price_change_percent <= constraints.max_premium * 100

\* A calculation whose combined adjustment exceeds max_premium and is
\* clamped to it.
C1_PremiumClamped ==
  /\ last.op = "calculate_dynamic_price"
  /\ last.outcome = "ok"
  /\ LET r == last.returned[1]
     IN  /\ r.adjustment = constraints.max_premium * 100
         /\ CombinedAdjustment(heap[r.weights], r.factors.demand_factor,
                               r.factors.elasticity, r.factors.churn_risk)
              > constraints.max_premium * (AdjDen \div 100)

\* C2: for a positive base price the dynamic_price of the returned result
\* is at least half the base price.
C2_PriceAtLeastHalfBase ==
  \A i \in 1..Len(pricing_history) :
    pricing_history[i].base_price > 0 =>
      20 * pricing_history[i].dynamic_price >= pricing_history[i].base_price

\* C3: predict_single is called on fitted collaborators only; a pricing
\* call raises a collaborator's exception only out of a fitted one, and
\* with a collaborator absent or unfitted calculate_dynamic_price returns a
\* result that carries the heuristic estimate for it.
C3_OnlyFittedCollaboratorsAsked ==
  last.op \in PricingOps =>
    /\ \A call \in last.calls : call[2] = "fitted"
    /\ last.outcome = "CollaboratorError" => last.calls # {}
    /\ last.op = "calculate_dynamic_price" =>
         /\ (last.calls = {} /\ last.args[1] # 0) => last.outcome = "ok"
         /\ (last.outcome = "ok" /\ segmentation_model # "fitted") =>
              last.returned[1].factors.elasticity
                = ElasticityHeuristic(last.args[2])
         /\ (last.outcome = "ok" /\ churn_model # "fitted") =>
              last.returned[1].factors.churn_risk
                = ChurnHeuristic(last.args[2])

\* A result priced with an unfitted churn model and no segmentation model.
C3_PricedWithoutCollaborators ==
  /\ last.op = "calculate_dynamic_price"
  /\ last.outcome = "ok"
  /\ churn_model = "unfitted"
  /\ segmentation_model = "None"
  /\ last.calls = {}

\* C4: calculate_dynamic_price does not fail when predict_single of a
\* fitted collaborator does.
C4_CollaboratorFailureFallsBack ==
  last.op = "calculate_dynamic_price" => last.outcome # "CollaboratorError"

\* C5: a calculate_dynamic_price call with base_price <= 0 returns no
\* result and appends nothing to the history.
C5_NonPositiveBasePriceRejected ==
  [][(/\ ops' # ops
      /\ last'.op = "calculate_dynamic_price"
      /\ last'.args[1] <= 0) =>
        /\ last'.returned = <<>>
        /\ pricing_history' = pricing_history]_vars

\* C6: calculate_roi_projection with customers_saved, avg_revenue_per_user
\* or avg_lifetime_months zero does not end in a division by zero.
C6_ZeroRevenueGuarded ==
  (/\ last.op = "calculate_roi_projection"
   /\ last.args[1] * last.args[2] * last.args[3] = 0) =>
     last.outcome # "ZeroDivisionError"

\* C7: update_weights sets each weight whose argument is not None to that
\* argument, keeps the others, and leaves constraints, demand factors,
\* collaborators and the history as they were.
C7_UpdateWeightsPartialAndFramed ==
  [][(ops' # ops /\ last'.op = "update_weights") =>
       /\ heap'[weights'] =
            [alpha |-> IF last'.args[1] # None THEN The(last'.args[1])
                       ELSE heap[weights].alpha,
             beta |-> IF last'.args[2] # None THEN The(last'.args[2])
                      ELSE heap[weights].beta,
             gamma |-> IF last'.args[3] # None THEN The(last'.args[3])
                       ELSE heap[weights].gamma]
       /\ constraints' = constraints
       /\ demand_factors' = demand_factors
       /\ churn_model' = churn_model
       /\ segmentation_model' = segmentation_model
       /\ HistoryContents' = HistoryContents]_vars

\* C8: every call keeps the entries of the history in place; a successful
\* calculate_dynamic_price adds the result it returns as the one new last
\* entry; update_weights, set_models, get_pricing_history and
\* calculate_roi_projection leave the history as it is.
C8_HistoryAppendOnly ==
  [][/\ Len(pricing_history') >= Len(pricing_history)
     /\ SubSeq(pricing_history', 1, Len(pricing_history)) = pricing_history
     /\ (/\ ops' # ops
         /\ last'.op = "calculate_dynamic_price"
         /\ last'.outcome = "ok") =>
           pricing_history' = Append(pricing_history, last'.returned[1])
     /\ (ops' # ops /\ last'.op \notin PricingOps) =>
           pricing_history' = pricing_history]_vars

\* A second, different result appended behind the first.
C8_SecondResultAppended ==
  /\ last.op = "calculate_dynamic_price"
  /\ last.outcome = "ok"
  /\ Len(pricing_history) = 2
  /\ pricing_history[2] = last.returned[1]
  /\ pricing_history[1] # pricing_history[2]

\* C9: every field of a result in the history, its recorded weights
\* included, reads the same after any later call.
C9_ResultsImmutable ==
  [][\A i \in 1..Len(pricing_history) :
       HistoryContents'[i] = HistoryContents[i]]_vars

\* C10: with update_weights running concurrently, the three weights a
\* price calculation has read are one complete configuration of the
\* engine: the weights as they stood before or after an update.
C10_ConsistentWeightTriple ==
  running["pricer"].pc = "compute" =>
    WeightsRead(running["pricer"]) \in configurations

\* The calls a thread has begun and not yet finished.
InProgress == {t \in Threads : running[t].pc # "idle"}

\* C11: with calculate_dynamic_price calls running concurrently, every call
\* that finishes adds its own result as one new last entry, no other step
\* touches the history, and the history holds as many entries as calls
\* have finished.
C11_ConcurrentAppendsKept ==
  /\ [](Len(pricing_history) + Cardinality(InProgress) = ops)
  /\ [][\A t \in Pricers :
         IF running[t].pc = "compute" /\ running'[t].pc = "idle"
         THEN /\ pricing_history'
                  = Append(pricing_history, last'.returned[1])
              /\ last'.returned[1].base_price = running[t].call.base_price
              /\ last'.returned[1].factors.churn_risk
                   = running[t].call.factors.churn_risk
         ELSE running'[t] # running[t] =>
                pricing_history' = pricing_history]_vars

\* A result has been appended and two more calls are in progress at once,
\* each about to append its own.
C11_AppendsWithCallsInProgress ==
  /\ Len(pricing_history) = 1
  /\ InProgress = Pricers
  /\ \A t \in Pricers : running[t].pc = "compute"
  /\ running["pricer"].call.base_price # running["pricer2"].call.base_price

\* C12: estimate_price_elasticity returns a value between -2.5 and -0.2,
\* from the heuristic for every feature set and from the segmentation
\* model for every segment it reports; so does every result carry one.
C12_ElasticityInRange ==
  /\ (last.op = "estimate_price_elasticity" /\ last.outcome = "ok") =>
       (-250 <= last.returned[1] /\ last.returned[1] <= -20)
  /\ \A i \in 1..Len(pricing_history) :
       /\ -250 <= pricing_history[i].factors.elasticity
       /\ pricing_history[i].factors.elasticity <= -20

\* The heuristic on a feature set whose raw estimate lies above -0.2.
C12_HeuristicClampedAtTop ==
  /\ last.op = "estimate_price_elasticity"
  /\ segmentation_model # "fitted"
  /\ last.returned = <<-20>>
  /\ "nps_score" \in DOMAIN last.args[1]
  /\ last.args[1].nps_score = 20

\* C13: calculate_churn_risk returns a value between 0 and 1, from the
\* heuristic for every feature set and from the churn model.
C13_ChurnRiskInUnitRange ==
  (last.op = "calculate_churn_risk" /\ last.outcome = "ok") =>
    (0 <= last.returned[1] /\ last.returned[1] <= 10000)

\* C14: a calculation returns a price above a positive base price only
\* when alpha * demand_factor is positive.
C14_PremiumOnlyFromDemand ==
  (/\ last.op = "calculate_dynamic_price"
   /\ last.outcome = "ok"
   /\ last.returned[1].base_price > 0
   /\ 10 * last.returned[1].dynamic_price > last.returned[1].base_price) =>
     heap[weights].alpha * last.returned[1].factors.demand_factor > 0

\* The text of the band a price_change_percent p lies in (hundredths of a
\* percent): below -20, from -20 to below -10, from -10 to below 0, from 0
\* to 10, above 10.
InBand(p, text) ==
  /\ p < -2000 =>
       text = "High retention risk. Apply maximum discount with loyalty offer."
  /\ (-2000 <= p /\ p < -1000) =>
       text = "Moderate retention risk. Offer promotional discount."
  /\ (-1000 <= p /\ p < 0) =>
       text = "Slight concern. Consider small incentive to maintain engagement."
  /\ (0 <= p /\ p <= 1000) =>
       text = "Customer is stable. Standard pricing applies."
  /\ p > 1000 =>
       text = "High-value customer. Premium pricing acceptable."

\* C15: the recommendation is the text of the band the
\* price_change_percent lies in, in every result and for every value at
\* or beside a threshold.
C15_RecommendationBands ==
  /\ last.op = "_generate_recommendation" =>
       InBand(last.args[1], last.returned[1])
  /\ \A i \in 1..Len(pricing_history) :
       InBand(pricing_history[i].price_change_percent,
              pricing_history[i].recommendation)

\* The upper threshold itself: 10.00 percent is still in the stable band.
C15_StableAtTen ==
  /\ last.op = "_generate_recommendation"
  /\ last.args = <<1000>>
  /\ last.returned = <<"Customer is stable. Standard pricing applies.">>

EngineState ==
  <<heap, weights, constraints, demand_factors, churn_model,
    segmentation_model, pricing_history>>

\* C17: calculate_demand_factor with an explicit timestamp leaves the
\* engine's state as it is and, after any calls of calculate_dynamic_price,
\* update_weights and set_models, returns what the table set at
\* construction gives for that timestamp, whatever the clock reads.
C17_DemandFactorPure ==
  /\ []((last.op = "calculate_demand_factor" /\ last.args[1] # None) =>
          last.returned[1]
            = calculate_demand_factor(PRICING_CONFIG.demand_factors,
                                      The(last.args[1])))
  /\ [][(ops' # ops /\ last'.op = "calculate_demand_factor") =>
          EngineState' = EngineState]_vars

\* A demand factor asked for a Saturday evening after the weights were
\* updated and a price calculated, with the clock at a Monday off-peak hour.
C17_AskedAfterOtherCalls ==
  /\ last.op = "calculate_demand_factor"
  /\ last.args = <<Some(5 * 24 + 20)>>
  /\ last.returned = <<2000>>
  /\ ops = 3
  /\ Len(pricing_history) = 1
  /\ heap[weights] # PRICING_CONFIG.weights

\* C18: whatever the order the four default scenarios are listed in and
\* however often the simulation is run, each name maps to the result a
\* single calculation for that scenario's timestamp gives with the same
\* base price, features and engine configuration.
C18_ScenariosOrderIndependent ==
  (last.op = "simulate_pricing_scenarios" /\ last.outcome = "ok") =>
    /\ DOMAIN last.returned[1]
         = {CanonicalScenarios[i] : i \in 1..Len(CanonicalScenarios)}
    /\ \A name \in DOMAIN last.returned[1] :
         <<last.returned[1][name]>>
           = calculate_dynamic_price(
               last.args[1], last.args[3],
               Some(ScenarioTimestamp(name, 0)), last.args[4]).returned

\* A second simulation, with the names in reverse order and fitted
\* collaborators, after one in the default order.
C18_RepeatedInReverseOrder ==
  /\ last.op = "simulate_pricing_scenarios"
  /\ last.outcome = "ok"
  /\ last.args[2][1] = "offpeak_weekend"
  /\ Len(pricing_history) = 8
  /\ pricing_history[1].timestamp = 20
  /\ pricing_history[1].dynamic_price # pricing_history[8].dynamic_price

\* The result of one calculate_dynamic_price call for the i-th customer of
\* the last optimize_revenue call alone, in the environment of that
\* customer's calculation.
AloneResult(i) ==
  calculate_dynamic_price(last.args[2][i], last.args[1][i], None,
                          last.args[3][i]).returned[1]

RECURSIVE SumUpTo(_, _)
SumUpTo(F(_), n) == IF n = 0 THEN 0 ELSE F(n) + SumUpTo(F, n - 1)

AloneDynamicPrice(i) == AloneResult(i).dynamic_price

ListedBasePrice(i) == last.args[2][i]

\* What C19 says of every returned summary but the total of the base
\* prices.
IndividualsAlone ==
  LET n == Min(Len(last.args[1]), Len(last.args[2]))
      r == last.returned[1]
  IN  /\ Len(r.individual_results) = n
      /\ \A i \in 1..n : r.individual_results[i] = AloneResult(i)
      /\ r.total_dynamic_revenue = SumUpTo(AloneDynamicPrice, n)

\* C19 (as stated): the summary of optimize_revenue carries the results of
\* the customers' calculations alone, total_dynamic_revenue is the sum of
\* their dynamic prices and total_base_revenue is the sum of the base
\* prices.
C19_TotalsAreSums ==
  (last.op = "optimize_revenue" /\ last.outcome = "ok") =>
    /\ IndividualsAlone
    /\ 10 * last.returned[1].total_base_revenue
         = SumUpTo(ListedBasePrice,
                   Min(Len(last.args[1]), Len(last.args[2])))

\* C19 (amended): as above, with total_base_revenue the sum of the base
\* prices rounded to two decimals.
C19_TotalsAreRoundedSums ==
  (last.op = "optimize_revenue" /\ last.outcome = "ok") =>
    /\ IndividualsAlone
    /\ last.returned[1].total_base_revenue
         = RoundHalfEven(SumUpTo(ListedBasePrice,
                                 Min(Len(last.args[1]), Len(last.args[2]))),
                         10)

\* A batch of two different customers, priced differently, whose base
\* prices sum to a fraction of a cent.
C19_TwoCustomersSubCentTotal ==
  /\ last.op = "optimize_revenue"
  /\ last.outcome = "ok"
  /\ last.args[2] = <<10004, 10004>>
  /\ last.returned[1].total_base_revenue = 2001
  /\ last.returned[1].individual_results[1].dynamic_price
       # last.returned[1].individual_results[2].dynamic_price

\* C20: get_pricing_history(limit), limit >= 0, returns at most limit
\* entries: the last min(limit, length) entries of the history in insertion
\* order; the history is left as it was.
C20_HistoryReadCapped ==
  /\ [](last.op = "get_pricing_history" /\ last.args[1] >= 0 =>
          LET n == Len(pricing_history)
              k == Min(last.args[1], n)
          IN  /\ Len(last.returned[1]) <= last.args[1]
              /\ last.returned[1]
                   = [i \in 1..k |-> pricing_history[n - k + i]])
  /\ [][ops' # ops /\ last'.op = "get_pricing_history" =>
          pricing_history' = pricing_history]_vars

\* C21: a direct churn or segmentation endpoint answers HTTP 503 exactly
\* when the model its route holds is absent or not fitted, and then without
\* a call of predict_single; a pricing endpoint whose engine holds no
\* fitted churn or segmentation model still answers, with the heuristic
\* estimate in place of that model and without calling it.
C21_ModelNotReadyIsDistinct ==
  /\ last.op = "predict_churn" =>
       /\ last.outcome = "HTTP503" <=> service.churn_route # "fitted"
       /\ last.outcome = "HTTP503" => last.calls = {}
       /\ \A call \in last.calls : call[2] = "fitted"
  /\ last.op = "predict_segment" =>
       /\ last.outcome = "HTTP503" <=> service.segmentation_route # "fitted"
       /\ last.outcome = "HTTP503" => last.calls = {}
       /\ \A call \in last.calls : call[2] = "fitted"
  /\ last.op = "calculate_dynamic_price" =>
       /\ last.outcome # "HTTP503"
       /\ \A call \in last.calls : call[2] = "fitted"
       /\ (churn_model # "fitted" /\ segmentation_model # "fitted") =>
            /\ last.outcome = "ok"
            /\ last.calls = {}
       /\ (last.outcome = "ok" /\ churn_model # "fitted") =>
            last.returned[1].factors.churn_risk
              = ChurnHeuristic(last.args[2])
       /\ (last.outcome = "ok" /\ segmentation_model # "fitted") =>
            last.returned[1].factors.elasticity
              = ElasticityHeuristic(last.args[2])

\* The churn endpoint answers 503 in a service without a churn model whose
\* pricing endpoint has answered before.
C21_ChurnUnreadyPricingAnswered ==
  /\ last.op = "predict_churn"
  /\ last.outcome = "HTTP503"
  /\ service.churn_route = "None"
  /\ churn_model = "unfitted"
  /\ Len(pricing_history) = 1
  /\ pricing_history[1].factors.churn_risk = ChurnHeuristic(AtRisk)

\* C22: calculate_roi_projection returns revenue_saved = customers_saved *
\* avg_revenue_per_user * avg_lifetime_months, net_benefit = revenue_saved -
\* implementation_cost, roi_percent = net_benefit / implementation_cost *
\* 100 (two decimals) and payback_months = implementation_cost /
\* (revenue_saved / avg_lifetime_months) (one decimal); for 700, 500, 24 and
\* 1,000,000 these are 8,400,000, 7,400,000, 740.0 and 2.9; the call leaves
\* the engine's state as it is.
C22_RoiProjection ==
  /\ []((last.op = "calculate_roi_projection" /\ last.outcome = "ok") =>
          LET a == last.args
              r == last.returned[1]
          IN  /\ r.customers_saved = a[1]
              /\ r.implementation_cost = a[4]
              /\ r.revenue_saved = a[1] * a[2] * a[3]
              /\ r.net_benefit = a[1] * a[2] * a[3] - a[4]
              /\ r.roi_percent = RoundMulDiv(r.net_benefit, 10000, a[4])
              /\ r.payback_months
                   = RoundMulDiv(a[4], 10 * a[3], r.revenue_saved)
              /\ a = <<700, 500, 24, 1000000>> =>
                   /\ r.revenue_saved = 8400000
                   /\ r.net_benefit = 7400000
                   /\ r.roi_percent = 74000
                   /\ r.payback_months = 29)
  /\ []((last.op = "calculate_roi_projection"
           /\ last.args = <<700, 500, 24, 1000000>>) => last.outcome = "ok")
  /\ [][(ops' # ops /\ last'.op = "calculate_roi_projection") =>
          EngineState' = EngineState]_vars

\* The projection of a loss (return -28.0 percent, payback 16.7 months) on
\* an engine with updated weights and a recorded price.
C22_LossProjectedOnUsedEngine ==
  /\ last.op = "calculate_roi_projection"
  /\ last.args = <<100, 300, 12, 500000>>
  /\ last.outcome = "ok"
  /\ last.returned[1].roi_percent = -2800
  /\ last.returned[1].payback_months = 167
  /\ Len(pricing_history) = 1
  /\ heap[weights] # PRICING_CONFIG.weights

\* C23: the elasticity factor of every result lies in [0, 1], is 0 for
\* elasticity -0.2 and 1 for elasticity -2.5, and of two results the one
\* with the more negative elasticity never has the smaller factor.
C23_ElasticityFactorMonotone ==
  \A i \in 1..Len(pricing_history) :
    LET f == pricing_history[i].factors
    IN  /\ f.elasticity_factor >= 0
        /\ f.elasticity_factor <= 10000
        /\ f.elasticity = -20 => f.elasticity_factor = 0
        /\ f.elasticity = -250 => f.elasticity_factor = 10000
        /\ \A j \in 1..Len(pricing_history) :
             f.elasticity <= pricing_history[j].factors.elasticity =>
               f.elasticity_factor
                 >= pricing_history[j].factors.elasticity_factor

\* Two results of a fitted segmentation model: one with an elasticity
\* beyond -2.5, one with an elasticity inside the range.
C23_BeyondAndInsideRange ==
  /\ Len(pricing_history) = 2
  /\ pricing_history[1].factors.elasticity = -400
  /\ pricing_history[1].factors.elasticity_factor = 10000
  /\ pricing_history[2].factors.elasticity = -135
  /\ pricing_history[2].factors.elasticity_factor = 5000

\* C24: simulate_pricing_scenarios with a name that is none of the four
\* known ones is not rejected: it succeeds wherever the price calculation
\* does, returns under that name a result computed for the time the clock
\* reads, and appends that result to the history.
C24_UnknownScenarioPricedNow ==
  /\ []((/\ last.op = "simulate_pricing_scenarios"
          /\ last.args[2] = <<"flash_sale">>) =>
           /\ (/\ churn_model # "fitted"
               /\ segmentation_model # "fitted"
               /\ last.args[1] # 0) => last.outcome = "ok"
           /\ last.outcome = "ok" =>
                /\ DOMAIN last.returned[1] = {"flash_sale"}
                /\ last.returned[1]["flash_sale"].timestamp
                     \in {n[1] : n \in NowPairs}
                /\ last.returned[1]["flash_sale"].factors.demand_factor
                     = calculate_demand_factor(
                         demand_factors,
                         last.returned[1]["flash_sale"].timestamp))
  /\ [][(/\ ops' # ops
          /\ last'.op = "simulate_pricing_scenarios"
          /\ last'.args[2] = <<"flash_sale">>
          /\ last'.outcome = "ok") =>
           pricing_history'
             = Append(pricing_history, last'.returned[1]["flash_sale"])]_vars

\* An unknown scenario priced at the hour the clock reads (22:00 on a
\* Monday), after a result for 20:00.
C24_UnknownAfterKnown ==
  /\ last.op = "simulate_pricing_scenarios"
  /\ last.args[2] = <<"flash_sale">>
  /\ last.outcome = "ok"
  /\ Len(pricing_history) = 2
  /\ pricing_history[1].timestamp = 20
  /\ pricing_history[2].timestamp = 22
  /\ pricing_history[2].factors.demand_factor = 1500

\* Features f are at least as risky as features g: no risk indicator, read
\* with its default where missing, is lower in f than in g.
AtLeastAsRisky(f, g) ==
  /\ Get(f, "usage_change_30d", 0) <= Get(g, "usage_change_30d", 0)
  /\ Get(f, "days_since_login", 0) >= Get(g, "days_since_login", 0)
  /\ Get(f, "payment_failures_90d", 0) >= Get(g, "payment_failures_90d", 0)
  /\ Get(f, "support_tickets", 0) >= Get(g, "support_tickets", 0)
  /\ Get(f, "nps_score", 5) <= Get(g, "nps_score", 5)

HeuristicChurnCall(call) ==
  /\ call.op = "calculate_churn_risk"
  /\ call.outcome = "ok"
  /\ call.calls = {}

\* C25: of two fallback churn estimates in a row, the one for the features
\* whose risk indicators are raised (a larger usage decline, more days
\* since login, more payment failures, more support tickets, a lower NPS)
\* is never the lower.
C25_ChurnHeuristicDirectional ==
  [][(/\ ops' # ops
      /\ HeuristicChurnCall(last)
      /\ HeuristicChurnCall(last')
      /\ AtLeastAsRisky(last'.args[1], last.args[1])) =>
        last'.returned[1] >= last.returned[1]]_vars

\* The fallback estimate for a customer known only by the lowest NPS,
\* asked after another estimate.
C25_LowestNpsAlone ==
  /\ HeuristicChurnCall(last)
  /\ last.args[1] = [k \in {"nps_score"} |-> 0]
  /\ last.returned = <<2000>>
  /\ ops = 2

\* C26: in every summary optimize_revenue returns, customers_processed is
\* the number of individual results and the number of entries the call
\* appended to the history, also for lists of different lengths.
C26_ProcessedCountsPriced ==
  /\ []((last.op = "optimize_revenue" /\ last.outcome = "ok") =>
          last.returned[1].customers_processed
            = Len(last.returned[1].individual_results))
  /\ [][(/\ ops' # ops
          /\ last'.op = "optimize_revenue"
          /\ last'.outcome = "ok") =>
           last'.returned[1].customers_processed
             = Len(pricing_history') - Len(pricing_history)]_vars

\* C27: after every run of load_models the loading status is accurate, and
\* so is the status the health endpoint reports: models_loaded["churn"] is
\* true exactly when the churn model the service holds is fitted, and
\* likewise for segmentation.
C27_LoadingStatusAccurate ==
  /\ service.models_loaded.churn <=> is_fitted(service.churn_model)
  /\ service.models_loaded.segmentation
       <=> is_fitted(service.segmentation_model)
  /\ last.op = "health_check" =>
       /\ last.returned[1].models_loaded.churn
            <=> is_fitted(service.churn_model)
       /\ last.returned[1].models_loaded.segmentation
            <=> is_fitted(service.segmentation_model)

\* C28: the timestamp of every recorded result is the instant its demand
\* factor was computed for: calculate_demand_factor at the recorded
\* timestamp gives the recorded demand factor, with a timestamp passed to
\* the call and without.
C28_TimestampIsDemandInstant ==
  \A i \in 1..Len(pricing_history) :
    pricing_history[i].factors.demand_factor
      = calculate_demand_factor(demand_factors, pricing_history[i].timestamp)

\* C29: with the weights, constraints and demand factors of PRICING_CONFIG,
\* an nps_score from 0 to 10 and a churn risk in [0, 1], every result has a
\* price_change_percent from -30 to 3: neither the floor at half the base
\* price nor the max_premium clamp binds, and the premium recommendation is
\* not produced.
C29_DefaultChangeRange ==
  (/\ last.op = "calculate_dynamic_price"
   /\ last.outcome = "ok"
   /\ heap[weights] = PRICING_CONFIG.weights
   /\ constraints = PRICING_CONFIG.constraints
   /\ demand_factors = PRICING_CONFIG.demand_factors
   /\ Get(last.args[2], "nps_score", 5) \in 0..10
   /\ last.returned[1].factors.churn_risk \in 0..10000) =>
     /\ last.returned[1].price_change_percent >= -3000
     /\ last.returned[1].price_change_percent <= 300
     /\ last.returned[1].adjustment <= 300
     /\ last.returned[1].recommendation
          # "High-value customer. Premium pricing acceptable."

\* The configuration load_models gives the engine for the files it finds:
\* the one saved in a readable pricing_model.joblib, else PRICING_CONFIG.
ExpectedConfiguration(files) ==
  IF files.pricing[1] = "saved" THEN files.pricing[2] ELSE PRICING_CONFIG

\* C30: after load_models, at startup and on every reload, the engine is a
\* fresh one: its history is empty and its weights, constraints and demand
\* factors are those of the saved file if one can be read and those of
\* PRICING_CONFIG otherwise, whatever update_weights had set before; the
\* weights dict of PRICING_CONFIG is never the engine's and is never
\* changed.
C30_ReloadGivesFreshEngine ==
  /\ [](last.op \in {"load_models", "reload_models"} =>
          /\ pricing_history = <<>>
          /\ heap[weights] = ExpectedConfiguration(last.args[1]).weights
          /\ constraints = ExpectedConfiguration(last.args[1]).constraints
          /\ demand_factors
               = ExpectedConfiguration(last.args[1]).demand_factors)
  /\ [](weights # ConfigObject)
  /\ [](heap[ConfigObject] = PRICING_CONFIG.weights)
  /\ [][(ops' # ops /\ last'.op = "update_weights") =>
          heap'[ConfigObject] = heap[ConfigObject]]_vars

\* A reload without a saved file, in a service that has had an engine with
\* alpha updated to 0.50: the weights are the defaults again.
C30_UnsavedUpdateDropped ==
  /\ last.op = "reload_models"
  /\ last.args[1].pricing = <<"missing">>
  /\ [alpha |-> 50, beta |-> 10, gamma |-> 20] \in configurations
  /\ heap[weights] = PRICING_CONFIG.weights
  /\ pricing_history = <<>>

====
